---------------------------- MODULE Spec2Model ----------------------------
(***************************************************************************)
(* A model of the South Africa dam dashboard (src/main.py).                *)
(*                                                                         *)
(* The program is a Streamlit script: every render runs the script from    *)
(* top to bottom.  What survives between two renders is the document store *)
(* (the `reports` collection, written by somebody else) and the memoised   *)
(* value of get_filter_options (st.cache_data, ttl 600 s).  get_data is    *)
(* memoised too (ttl 30 s, one value for each pair of inputs); the model   *)
(* runs its body on every render, which is what a render does whenever the *)
(* 30 seconds have passed, and an exception is never memoised.             *)
(*                                                                         *)
(* Representation choices:                                                 *)
(*   - percentages are fixed-point numbers with one decimal: the integer v *)
(*     stands for v / PctScale percent (600 is 60.0 %);                    *)
(*   - capacities are exact rationals [num, den] (the code uses floats);   *)
(*   - strings are ordered by their place in StrOrder, the ascending list  *)
(*     of the strings the model uses;                                      *)
(*   - the symbols of the Change column are spelled UP, DOWN and SQUARE;   *)
(*   - a document that has no last_week key carries Absent there; a data   *)
(*     frame cell with no value carries NaN (both are integers no          *)
(*     percentage can take, so that they compare with numbers);            *)
(*   - a dam's name is a number; river and lat_long are carried through    *)
(*     unchanged by the code and are left out of a document.               *)
(***************************************************************************)
EXTENDS Integers, Sequences, FiniteSets, TLC

VARIABLES
    store,          \* client['dam-dash']['reports']: the documents, in natural order
    filter_cache,   \* the memoised value of get_filter_options, if any
    pc,             \* "idle": no script run; "done": a script run has just ended
    page,           \* what the last script run produced (NoPage when idle)
    fn_call,        \* a call of a helper function on its own (NoCall otherwise)
    fn_ret          \* the value that call returned (NoRet before it returns)

vars == <<store, filter_cache, pc, page, fn_call, fn_ret>>

---------------------------------------------------------------------------
(* Bounds of the model *)

MaxReports == 4

MaxPct == 1050

MaxNeg == 30

MaxDelta == 105

---------------------------------------------------------------------------
(* Constants of the program *)

PctScale == 10

PALETTE == <<"#e60000", "#ffaa02", "#fffe03", "#4de600", "#0959df">>

min_size == 6

max_size == 15

Million == 1000000

All == "All"

None == "None"

Absent == 0 - 1000001

NaN == 0 - 1000002

UP == "UP"

DOWN == "DOWN"

SQUARE == "SQUARE"

---------------------------------------------------------------------------
(* Python's order on the strings of the model *)

StrOrder ==
    <<"2025-01-06", "2025-01-13", "Eastern Cape", "Western Cape">>

StrRank(s) == CHOOSE i \in 1..Len(StrOrder) : StrOrder[i] = s

StrLess(a, b) == StrRank(a) < StrRank(b)

---------------------------------------------------------------------------
(* Exact rationals, kept in lowest terms with a positive denominator *)

Abs(x) == IF x < 0 THEN 0 - x ELSE x

RECURSIVE Gcd(_, _)
Gcd(a, b) == IF b = 0 THEN a ELSE Gcd(b, a % b)

Rat(n, d) ==
    LET s == IF d < 0 THEN 0 - 1 ELSE 1
        g == Gcd(Abs(n), Abs(d))
    IN  [num |-> (s * n) \div g, den |-> (s * d) \div g]

RAdd(a, b) == Rat(a.num * b.den + b.num * a.den, a.den * b.den)

RSub(a, b) == Rat(a.num * b.den - b.num * a.den, a.den * b.den)

RMul(a, b) == Rat(a.num * b.num, a.den * b.den)

RDiv(a, b) == Rat(a.num * b.den, a.den * b.num)

RLess(a, b) == a.num * b.den < b.num * a.den

RLeq(a, b) == a.num * b.den <= b.num * a.den

---------------------------------------------------------------------------
(* Helper functions *)

\* get_color with <= for <: a boundary value falls into the lower bucket.
get_color_inclusive(value) ==
    IF value <= 25 * PctScale THEN PALETTE[1]
    ELSE IF value <= 50 * PctScale THEN PALETTE[2]
    ELSE IF value <= 75 * PctScale THEN PALETTE[3]
    ELSE IF value <= 90 * PctScale THEN PALETTE[4]
    ELSE PALETTE[5]

get_color(value) ==
    IF value < 25 * PctScale THEN PALETTE[1]
    ELSE IF value < 50 * PctScale THEN PALETTE[2]
    ELSE IF value < 75 * PctScale THEN PALETTE[3]
    ELSE IF value < 90 * PctScale THEN PALETTE[4]
    ELSE PALETTE[5]

\* f"{x:.1f}" of a number with one decimal: sign for a negative number only.
FormatF1(x) ==
    (IF x < 0 THEN "-" ELSE "")
        \o ToString(Abs(x) \div PctScale) \o "." \o ToString(Abs(x) % PctScale)

\* Python's > and < on floats: every comparison with NaN is False.
FloatGt(a, b) == a # NaN /\ b # NaN /\ a > b

FloatLt(a, b) == a # NaN /\ b # NaN /\ a < b

FloatSub(a, b) == IF a = NaN \/ b = NaN THEN NaN ELSE a - b

\* The lambda with >= for >: an unchanged level counts as a rise.
Change_ge(row) ==
    IF row.last_week # NaN /\ row.PctFilled >= row.last_week
    THEN UP \o " " \o FormatF1(FloatSub(row.PctFilled, row.last_week)) \o "%"
    ELSE IF FloatLt(row.PctFilled, row.last_week)
    THEN DOWN \o " " \o FormatF1(FloatSub(row.PctFilled, row.last_week)) \o "%"
    ELSE SQUARE \o " 0%"

\* The lambda of df.apply that fills the Change column.
Change(row) ==
    IF FloatGt(row.PctFilled, row.last_week)
    THEN UP \o " " \o FormatF1(FloatSub(row.PctFilled, row.last_week)) \o "%"
    ELSE IF FloatLt(row.PctFilled, row.last_week)
    THEN DOWN \o " " \o FormatF1(FloatSub(row.PctFilled, row.last_week)) \o "%"
    ELSE SQUARE \o " 0%"

\* get_marker_size measuring from the largest capacity: the size falls as
\* the capacity grows.
get_marker_size_inverted(fsc, min_fsc, max_fsc) ==
    RAdd(Rat(min_size, 1),
         RMul(Rat(max_size - min_size, 1),
              IF RLess(min_fsc, max_fsc)
              THEN RDiv(RSub(max_fsc, fsc), RSub(max_fsc, min_fsc))
              ELSE Rat(0, 1)))

\* get_marker_size with the fraction 1 for a range of one capacity.
get_marker_size_else_one(fsc, min_fsc, max_fsc) ==
    RAdd(Rat(min_size, 1),
         RMul(Rat(max_size - min_size, 1),
              IF RLess(min_fsc, max_fsc)
              THEN RDiv(RSub(fsc, min_fsc), RSub(max_fsc, min_fsc))
              ELSE Rat(1, 1)))

get_marker_size(fsc, min_fsc, max_fsc) ==
    RAdd(Rat(min_size, 1),
         RMul(Rat(max_size - min_size, 1),
              IF RLess(min_fsc, max_fsc)
              THEN RDiv(RSub(fsc, min_fsc), RSub(max_fsc, min_fsc))
              ELSE Rat(0, 1)))

---------------------------------------------------------------------------
(* The document store *)

\* find_one(sort=[("report_date", -1)]): the latest report date, or None.
get_latest_report_date(s) ==
    IF Len(s) = 0 THEN None
    ELSE LET dates == {s[i].report_date : i \in 1..Len(s)}
         IN  CHOOSE d \in dates : \A e \in dates : e = d \/ StrLess(e, d)

\* sorted(values): the strings of a set in ascending order.
RECURSIVE sorted(_)
sorted(S) ==
    IF S = {} THEN <<>>
    ELSE LET m == CHOOSE x \in S : \A y \in S : y = x \/ StrLess(x, y)
         IN  <<m>> \o sorted(S \ {m})

RECURSIVE reversed(_)
reversed(q) == IF q = <<>> THEN <<>> ELSE reversed(Tail(q)) \o <<Head(q)>>

\* The body of get_filter_options.
get_filter_options(s) ==
    [valid |-> TRUE,
     report_dates |-> reversed(sorted({s[i].report_date : i \in 1..Len(s)})),
     provinces |-> sorted({s[i].province : i \in 1..Len(s)})]

EmptyCache == [valid |-> FALSE, report_dates |-> <<>>, provinces |-> <<>>]

\* query = {}, then one key for each input that is not "All".
Query(report_date, province) ==
    [k \in (IF report_date # All THEN {"report_date"} ELSE {})
            \cup (IF province # All THEN {"province"} ELSE {})
        |-> IF k = "report_date" THEN report_date ELSE province]

\* find(filter=query): the documents that carry every value of the query.
find(s, query) ==
    SelectSeq(s, LAMBDA doc : \A k \in DOMAIN query : doc[k] = query[k])

---------------------------------------------------------------------------
(* The data fetch *)

\* pd.DataFrame(items), then rename(columns=TABLE_COLUMNS): the columns are
\* the keys any item has (none when there is no item), and a cell whose item
\* has no such key is NaN.
DataFrame(items) ==
    [columns |->
        IF Len(items) = 0 THEN {}
        ELSE {"Dam Name", "Province", "FSC Million m3", "Pct Filled"}
             \cup (IF \E i \in 1..Len(items) : items[i].last_week # Absent
                   THEN {"last_week"} ELSE {}),
     rows |->
        [i \in 1..Len(items) |->
            [DamName |-> items[i].dam,
             Province |-> items[i].province,
             FSC |-> items[i].full_storage_capacity,
             PctFilled |-> items[i].this_week,
             last_week |-> IF items[i].last_week = Absent
                           THEN NaN ELSE items[i].last_week]]]

\* One row after the capacity conversion, the Change column and the drop of
\* last_week.
DisplayRow(row) ==
    [DamName |-> row.DamName,
     Province |-> row.Province,
     FSC |-> Rat(row.FSC, Million),
     PctFilled |-> row.PctFilled,
     Change |-> Change(row)]

KeyError(key) == [status |-> "KeyError", key |-> key, rows |-> <<>>]

\* The body of get_data: df["FSC Million m3"] raises KeyError on a frame
\* without that column, and row["last_week"] raises KeyError on a row of a
\* frame without that column.
get_data(s, report_date, province) ==
    LET items == find(s, Query(report_date, province))
        df == DataFrame(items)
    IN  IF "FSC Million m3" \notin df.columns
        THEN KeyError("FSC Million m3")
        ELSE IF Len(df.rows) > 0 /\ "last_week" \notin df.columns
        THEN KeyError("last_week")
        ELSE [status |-> "ok", key |-> "",
              rows |-> [i \in 1..Len(df.rows) |-> DisplayRow(df.rows[i])]]

---------------------------------------------------------------------------
(* The table and the map *)

\* The order with ascending=[True, True].
RowBefore_ascending(a, b) ==
    \/ StrLess(a.Province, b.Province)
    \/ a.Province = b.Province /\ a.PctFilled < b.PctFilled

\* The order of sort_values(by=[Province, Pct Filled], ascending=[True, False]).
RowBefore(a, b) ==
    \/ StrLess(a.Province, b.Province)
    \/ a.Province = b.Province /\ a.PctFilled > b.PctFilled

\* A row put into a sorted sequence behind every row that is not after it.
RECURSIVE Insert(_, _)
Insert(q, r) ==
    IF q = <<>> THEN <<r>>
    ELSE IF RowBefore(r, Head(q)) THEN <<r>> \o q
    ELSE <<Head(q)>> \o Insert(Tail(q), r)

\* A stable sort of the rows.
RECURSIVE sort_from(_, _)
sort_from(done, rest) ==
    IF rest = <<>> THEN done
    ELSE sort_from(Insert(done, Head(rest)), Tail(rest))

sort_values(rows) == sort_from(<<>>, rows)

\* data[column].min() and .max() of a frame that has rows.
ColumnMin(rows) ==
    LET S == {rows[i].FSC : i \in 1..Len(rows)}
    IN  CHOOSE m \in S : \A x \in S : RLeq(m, x)

ColumnMax(rows) ==
    LET S == {rows[i].FSC : i \in 1..Len(rows)}
    IN  CHOOSE m \in S : \A x \in S : RLeq(x, m)

\* The markers with the smallest and the largest capacity of the whole
\* collection for those of the data.
Markers_global(rows) ==
    IF Len(rows) = 0 THEN <<>>
    ELSE LET all == [k \in 1..Len(store) |->
                        [FSC |-> Rat(store[k].full_storage_capacity, Million)]]
             min_fsc == ColumnMin(all)
             max_fsc == ColumnMax(all)
         IN  [i \in 1..Len(rows) |->
                [dam |-> rows[i].DamName,
                 radius |-> get_marker_size(rows[i].FSC, min_fsc, max_fsc),
                 color |-> get_color(rows[i].PctFilled),
                 fill_color |-> get_color(rows[i].PctFilled)]]

\* One folium.CircleMarker for each row of the data.
Markers(rows) ==
    IF Len(rows) = 0 THEN <<>>
    ELSE LET min_fsc == ColumnMin(rows)
             max_fsc == ColumnMax(rows)
         IN  [i \in 1..Len(rows) |->
                [dam |-> rows[i].DamName,
                 radius |-> get_marker_size(rows[i].FSC, min_fsc, max_fsc),
                 color |-> get_color(rows[i].PctFilled),
                 fill_color |-> get_color(rows[i].PctFilled)]]

\* The index the report date selectbox starts at (0 is "All").
DefaultIndex(s, report_dates) ==
    IF \E i \in 1..Len(report_dates) : report_dates[i] = get_latest_report_date(s)
    THEN 1 ELSE 0

---------------------------------------------------------------------------
(* The state machine *)

NoPage == [status |-> "none"]

NoCall == [fn |-> "none", args |-> <<>>]

NoRet == "none"

\* The documents with a field from each of the given sets.
Documents(D, P, T, L, C) ==
    [report_date : D, province : P, this_week : T, last_week : L,
     full_storage_capacity : C]

InitWeb ==
    /\ store = <<>>
    /\ filter_cache = EmptyCache
    /\ pc = "idle"
    /\ page = NoPage
    /\ fn_call = NoCall
    /\ fn_ret = NoRet

\* The scraper adds one dam's report to the collection.
AddReport(U) ==
    /\ pc = "idle"
    /\ Len(store) < MaxReports
    /\ \E doc \in U :
          store' = Append(store,
                          [dam |-> Len(store) + 1,
                           report_date |-> doc.report_date,
                           province |-> doc.province,
                           this_week |-> doc.this_week,
                           last_week |-> doc.last_week,
                           full_storage_capacity |-> doc.full_storage_capacity])
    /\ UNCHANGED <<filter_cache, pc, page, fn_call, fn_ret>>

\* The 600 seconds of the memoised filter options run out.
ExpireFilterOptions ==
    /\ pc = "idle"
    /\ filter_cache.valid
    /\ filter_cache' = EmptyCache
    /\ UNCHANGED <<store, pc, page, fn_call, fn_ret>>

\* One run of the script: the sidebar, the fetch, the table and the map.
Render ==
    /\ pc = "idle"
    /\ LET options == IF filter_cache.valid THEN filter_cache
                      ELSE get_filter_options(store)
           dates == <<All>> \o options.report_dates
           provs == <<All>> \o options.provinces
           index == DefaultIndex(store, options.report_dates)
       IN  /\ filter_cache' = options
           /\ \E i \in 1..Len(dates), j \in 1..Len(provs) :
                 LET got == get_data(store, dates[i], provs[j])
                     data == sort_values(got.rows)
                 IN  page' = [status |-> got.status,
                              default_date |-> dates[index + 1],
                              report_date |-> dates[i],
                              province |-> provs[j],
                              data |-> data,
                              markers |-> Markers(data)]
    /\ pc' = "done"
    /\ UNCHANGED <<store, fn_call, fn_ret>>

\* The script's variables are gone once the page is delivered.
EndRun ==
    /\ pc = "done"
    /\ pc' = "idle"
    /\ page' = NoPage
    /\ UNCHANGED <<store, filter_cache, fn_call, fn_ret>>

---------------------------------------------------------------------------
(* The dashboard over reports that differ in date, province and baseline *)

Dates == {"2025-01-06", "2025-01-13"}

Provinces == {"Eastern Cape", "Western Cape"}

FilterReports ==
    Documents(Dates, Provinces, {60 * PctScale}, {55 * PctScale, Absent},
              {10 * Million})

Init == InitWeb

Next ==
    \/ AddReport(FilterReports)
    \/ ExpireFilterOptions
    \/ Render
    \/ EndRun

Spec == Init /\ [][Next]_vars

---------------------------------------------------------------------------
(* The dashboard over reports that differ in province, level and capacity *)

\* <<this_week, full_storage_capacity>> of a dam.
Measurements ==
    {<<90 * PctScale, 10 * Million>>,
     <<40 * PctScale, 12500000>>,
     <<80 * PctScale, 50 * Million>>,
     <<60 * PctScale, 100 * Million>>}

ViewReports ==
    {[report_date |-> "2025-01-13", province |-> p, this_week |-> m[1],
      last_week |-> 50 * PctScale, full_storage_capacity |-> m[2]] :
        p \in Provinces, m \in Measurements}

NextView ==
    \/ AddReport(ViewReports)
    \/ ExpireFilterOptions
    \/ Render
    \/ EndRun

SpecView == InitWeb /\ [][NextView]_vars

---------------------------------------------------------------------------
(* The helper functions on their own *)

PctInputs == (0 - MaxNeg)..MaxPct

ColorCalls == {[fn |-> "get_color", args |-> <<v>>] : v \in PctInputs}

\* Levels on a grid of 10 %, with baselines within MaxDelta of the level or
\* missing.
ChangeCalls ==
    UNION {{[fn |-> "Change", args |-> <<t, l>>] :
                l \in {x \in 0..MaxPct : Abs(x - t) <= MaxDelta} \cup {NaN}} :
           t \in {v \in 0..MaxPct : v % (10 * PctScale) = 0}}

InitPure ==
    /\ store = <<>>
    /\ filter_cache = EmptyCache
    /\ pc = "idle"
    /\ page = NoPage
    /\ fn_call \in ColorCalls \cup ChangeCalls
    /\ fn_ret = NoRet

CallGetColor ==
    /\ fn_call.fn = "get_color"
    /\ fn_ret = NoRet
    /\ fn_ret' = get_color(fn_call.args[1])
    /\ UNCHANGED <<store, filter_cache, pc, page, fn_call>>

CallChange ==
    /\ fn_call.fn = "Change"
    /\ fn_ret = NoRet
    /\ fn_ret' = Change([PctFilled |-> fn_call.args[1],
                         last_week |-> fn_call.args[2]])
    /\ UNCHANGED <<store, filter_cache, pc, page, fn_call>>

NextPure ==
    \/ CallGetColor
    \/ CallChange

SpecPure == InitPure /\ [][NextPure]_vars

---------------------------------------------------------------------------
(* What the claims speak of *)

\* The places in the store of the documents the filter (d, p) asks for.
Selected(d, p) ==
    {k \in 1..Len(store) :
        /\ d = All \/ store[k].report_date = d
        /\ p = All \/ store[k].province = p}

PageSelected == Selected(page.report_date, page.province)

\* The document of a dam.
DocOf(dam) == store[CHOOSE k \in 1..Len(store) : store[k].dam = dam]

\* The most recent report date of a store that holds a report.
LatestKnown ==
    LET dates == {store[k].report_date : k \in 1..Len(store)}
    IN  CHOOSE d \in dates : \A e \in dates : ~StrLess(d, e)

\* A number of tenths, not negative, written with one decimal.
OneDecimal(n) == ToString(n \div 10) \o "." \o ToString(n % 10)

Six == [num |-> 6, den |-> 1]

Fifteen == [num |-> 15, den |-> 1]

---------------------------------------------------------------------------
(* The claims *)

\* C1: get_data returns exactly the documents whose report_date and province
\* equal the inputs, a dimension whose input is "All" being left out of the
\* filter; so every run ends with the rows of exactly the selected documents.
C1_FetchReturnsSelected ==
    pc = "done" =>
        /\ page.status = "ok"
        /\ Len(page.data) = Cardinality(PageSelected)
        /\ {page.data[i].DamName : i \in 1..Len(page.data)}
              = {store[k].dam : k \in PageSelected}

\* C2: when the filter selects no document, the fetch and the rest of the run
\* complete and deliver an empty table and no marker.
C2_EmptyResultIsNoError ==
    (pc = "done" /\ PageSelected = {}) =>
        /\ page.status = "ok"
        /\ page.data = <<>>
        /\ page.markers = <<>>

\* C3: the rows of the page are in ascending order of province and, within a
\* province, in descending order of Pct Filled, and they are the selected
\* documents, each once.
C3_TableSorted ==
    (pc = "done" /\ page.status = "ok") =>
        /\ \A i \in 1..(Len(page.data) - 1) :
              LET r1 == page.data[i]
                  r2 == page.data[i + 1]
              IN  \/ StrRank(r1.Province) < StrRank(r2.Province)
                  \/ r1.Province = r2.Province /\ r1.PctFilled >= r2.PctFilled
        /\ Len(page.data) = Cardinality(PageSelected)
        /\ {page.data[i].DamName : i \in 1..Len(page.data)}
              = {store[k].dam : k \in PageSelected}
        /\ \A i \in 1..Len(page.data) :
              /\ page.data[i].Province = DocOf(page.data[i].DamName).province
              /\ page.data[i].PctFilled = DocOf(page.data[i].DamName).this_week

\* A page of four rows of both provinces that the sort had to reorder, with
\* two rows of one province at different levels.
C3_Witness ==
    /\ pc = "done"
    /\ page.status = "ok"
    /\ Len(page.data) = 4
    /\ page.data[1].Province # page.data[4].Province
    /\ \E i \in 1..3 :
          /\ page.data[i].Province = page.data[i + 1].Province
          /\ page.data[i].PctFilled > page.data[i + 1].PctFilled
          /\ page.data[i].DamName > page.data[i + 1].DamName

\* C4, as stated: a rise is written with the up symbol and the difference
\* with a leading "+" and one decimal, a fall with the down symbol and the
\* negative difference with one decimal, no change with the square and "0%".
C4_ExplicitPlus ==
    (fn_call.fn = "Change" /\ fn_ret # NoRet /\ fn_call.args[2] # NaN) =>
        LET this_week == fn_call.args[1]
            last_week == fn_call.args[2]
        IN  /\ this_week > last_week =>
                  fn_ret = UP \o " +" \o OneDecimal(this_week - last_week) \o "%"
            /\ this_week < last_week =>
                  fn_ret = DOWN \o " -" \o OneDecimal(last_week - this_week) \o "%"
            /\ this_week = last_week => fn_ret = SQUARE \o " 0%"

\* C4, amended: a rise is written with the up symbol and the difference with
\* one decimal and no sign (60 against 55 gives "5.0%"), a fall with the down
\* symbol and the negative difference with one decimal (40 against 50 gives
\* "-10.0%"), no change with the square and "0%"; the three forms differ.
C4_ChangeIndicator ==
    (fn_call.fn = "Change" /\ fn_ret # NoRet /\ fn_call.args[2] # NaN) =>
        LET this_week == fn_call.args[1]
            last_week == fn_call.args[2]
        IN  /\ this_week > last_week =>
                  fn_ret = UP \o " " \o OneDecimal(this_week - last_week) \o "%"
            /\ this_week < last_week =>
                  fn_ret = DOWN \o " -" \o OneDecimal(last_week - this_week) \o "%"
            /\ this_week = last_week => fn_ret = SQUARE \o " 0%"
            /\ (this_week = 600 /\ last_week = 550) => fn_ret = "UP 5.0%"
            /\ (this_week = 400 /\ last_week = 500) => fn_ret = "DOWN -10.0%"
            /\ (this_week = 300 /\ last_week = 300) => fn_ret = "SQUARE 0%"

\* The change of a level of 60 % against a baseline of 55 % has been computed.
C4_Witness ==
    /\ fn_call = [fn |-> "Change", args |-> <<600, 550>>]
    /\ fn_ret = "UP 5.0%"

\* C5: get_color maps a level below 25 (a negative one too) to PALETTE[0],
\* one in [25, 50) to PALETTE[1], one in [50, 75) to PALETTE[2], one in
\* [75, 90) to PALETTE[3] and one of 90 or more (above 100 too) to
\* PALETTE[4]; 25, 50, 75 and 90 fall into the higher bucket.
C5_ColourBuckets ==
    (fn_call.fn = "get_color" /\ fn_ret # NoRet) =>
        LET pct == fn_call.args[1]
        IN  /\ pct < 250 => fn_ret = "#e60000"
            /\ (250 <= pct /\ pct < 500) => fn_ret = "#ffaa02"
            /\ (500 <= pct /\ pct < 750) => fn_ret = "#fffe03"
            /\ (750 <= pct /\ pct < 900) => fn_ret = "#4de600"
            /\ 900 <= pct => fn_ret = "#0959df"

\* The colour of the boundary level 75 % has been computed.
C5_Witness ==
    /\ fn_call = [fn |-> "get_color", args |-> <<750>>]
    /\ fn_ret = "#4de600"

\* C6: on a page, a row whose capacity is not larger than another row's gets
\* a marker that is not larger, and every marker's radius is in [6, 15].
C6_MarkerSizeMonotone ==
    (pc = "done" /\ page.status = "ok") =>
        /\ \A i, j \in 1..Len(page.data) :
              RLeq(page.data[i].FSC, page.data[j].FSC) =>
                  RLeq(page.markers[i].radius, page.markers[j].radius)
        /\ \A i \in 1..Len(page.markers) :
              /\ RLeq(Six, page.markers[i].radius)
              /\ RLeq(page.markers[i].radius, Fifteen)

\* A page with markers of three sizes, one of them strictly inside the range.
C6_Witness ==
    /\ pc = "done"
    /\ page.status = "ok"
    /\ \E i, j, k \in 1..Len(page.markers) :
          /\ page.markers[i].radius = Six
          /\ RLess(Six, page.markers[j].radius)
          /\ RLess(page.markers[j].radius, Fifteen)
          /\ page.markers[k].radius = Fifteen

\* C7: when every row of the page has the same capacity (one dam, or equal
\* capacities), every marker has the smallest radius, 6.
C7_DegenerateRange ==
    (/\ pc = "done"
     /\ page.status = "ok"
     /\ \A i, j \in 1..Len(page.data) : page.data[i].FSC = page.data[j].FSC) =>
        \A i \in 1..Len(page.markers) : page.markers[i].radius = Six

\* A page of at least two dams of one capacity, drawn with radius 6.
C7_Witness ==
    /\ pc = "done"
    /\ page.status = "ok"
    /\ Len(page.data) >= 2
    /\ \A i, j \in 1..Len(page.data) : page.data[i].FSC = page.data[j].FSC
    /\ \A i \in 1..Len(page.markers) : page.markers[i].radius = Six

\* C8: a run whose selected documents include one without last_week ends in
\* an error: no Change is produced for a document that has no baseline.
C8_MissingBaselineFails ==
    (pc = "done" /\ \E k \in PageSelected : store[k].last_week = Absent) =>
        page.status # "ok"

\* C9: the report date the selectbox starts at is the most recent report
\* date of the store when the store holds a report, and "All" when it holds
\* none.
C9_DefaultIsLatest ==
    pc = "done" =>
        page.default_date = (IF Len(store) = 0 THEN All ELSE LatestKnown)

\* C10: there is one marker for each row of the page, in the colour of that
\* row's own level; and when the selected documents have at least two
\* capacities, the rows with the largest of them get radius 15, the rows with
\* the smallest get radius 6 and every other row a radius strictly between.
C10_MarkersOfResultSet ==
    (pc = "done" /\ page.status = "ok") =>
        LET caps == {store[k].full_storage_capacity : k \in PageSelected}
        IN  /\ Len(page.markers) = Len(page.data)
            /\ Len(page.markers) = Cardinality(PageSelected)
            /\ \A i \in 1..Len(page.markers) :
                  LET doc == DocOf(page.data[i].DamName)
                      m == page.markers[i]
                      c == doc.full_storage_capacity
                  IN  /\ m.dam = doc.dam
                      /\ m.color = get_color(doc.this_week)
                      /\ m.fill_color = m.color
                      /\ Cardinality(caps) >= 2 =>
                            /\ (\A x \in caps : x <= c) => m.radius = Fifteen
                            /\ (\A x \in caps : c <= x) => m.radius = Six
                            /\ (\E x, y \in caps : x < c /\ c < y) =>
                                  /\ RLess(Six, m.radius)
                                  /\ RLess(m.radius, Fifteen)

\* A page of one province with three capacities, while the other province
\* holds a dam larger than any on the page.
C10_Witness ==
    /\ pc = "done"
    /\ page.status = "ok"
    /\ page.province # All
    /\ Len(page.data) = 3
    /\ Cardinality({page.data[i].FSC : i \in 1..3}) = 3
    /\ \E k \in 1..Len(store) :
          /\ k \notin PageSelected
          /\ \A j \in PageSelected :
                store[j].full_storage_capacity < store[k].full_storage_capacity

===========================================================================
